---- MODULE Spec2Model ----
(***************************************************************************)
(* State-machine model of ThreeDimensionVisualizer (render scheduler,      *)
(* asynchronous field/robot model loading, camera selection) from          *)
(* src/shared/visualizers/ThreeDimensionVisualizer.ts.                     *)
(*                                                                         *)
(* One action per entry point: render(command), set3DCamera(index), the    *)
(* OrbitControls "change" listener, the requestAnimationFrame callback     *)
(* (renderFrame) and the two GLTFLoader completion callbacks.  The         *)
(* environment (asset catalog, preferences, display, visibility, clock)    *)
(* changes through its own actions.                                        *)
(***************************************************************************)
EXTENDS Integers, Sequences, FiniteSets, TLC

\* ------------------------------------------------------------------ bounds
MaxLoads == 3        \* GLTFLoader requests issued in one behaviour
MaxAdvance == 3      \* clock advances in one behaviour

\* --------------------------------------------------------------- constants
EFFICIENCY_MAX_FPS == 15
StartTime == 1000    \* Date.getTime() of the first refresh (any value >= 67)
FrameMs == 33        \* clock advance between two refreshes, in ms

None == <<>>
Some(x) == <<x>>

\* ------------------------------------------------------- asset catalog
\* window.frcData: field3ds and robots, looked up by title.
Cam43 == [resolution |-> <<4, 3>>]
Cam169 == [resolution |-> <<16, 9>>]

\* ------------------------------------------------------ rotation sequences
\* Config3d_Rotation: an axis and an angle in degrees. The model covers the
\* quarter turns. A quaternion is <<w, x, y, z>> kept up to a positive
\* scale, so that quarter turns have integer components: a turn by 90
\* degrees about x, (cos 45, sin 45, 0, 0), is kept as <<1, 1, 0, 0>>.
Axes == {"x", "y", "z"}
Degrees == {-90, 90, 180}
Rotations == [axis : Axes, degrees : Degrees]
RotSeqX == << [axis |-> "x", degrees |-> 90] >>
RotSeqXY == << [axis |-> "x", degrees |-> -90], [axis |-> "y", degrees |-> 180] >>

IdentityQuaternion == <<1, 0, 0, 0>>

\* THREE.Quaternion.setFromAxisAngle for a unit axis vector:
\* (cos(angle/2), sin(angle/2) * axis), scaled by sqrt(2) for odd quarter turns.
SetFromAxisAngle(axis, degrees) ==
    LET c == CASE degrees = 90 -> 1 [] degrees = -90 -> 1 [] degrees = 180 -> 0
        s == CASE degrees = 90 -> 1 [] degrees = -90 -> -1 [] degrees = 180 -> 1
    IN <<c, s * axis[1], s * axis[2], s * axis[3]>>

\* THREE.Quaternion.multiplyQuaternions: the Hamilton product a * b.
MultiplyQuaternions(a, b) ==
    << a[1] * b[1] - a[2] * b[2] - a[3] * b[3] - a[4] * b[4],
       a[1] * b[2] + a[2] * b[1] + a[3] * b[4] - a[4] * b[3],
       a[1] * b[3] - a[2] * b[4] + a[3] * b[1] + a[4] * b[2],
       a[1] * b[4] + a[2] * b[3] - a[3] * b[2] + a[4] * b[1] >>

\* q.premultiply(r) sets q to r * q.
Premultiply(q, r) == MultiplyQuaternions(r, q)

\* The axis vector the forEach body builds.
AxisVector(rotation) ==
    << IF rotation.axis = "x" THEN 1 ELSE 0,
       IF rotation.axis = "y" THEN 1 ELSE 0,
       IF rotation.axis = "z" THEN 1 ELSE 0 >>

\* A composition that multiplies each rotation on the right.
RECURSIVE GetQuaternionFromRotSeq_Postmultiplies(_)
GetQuaternionFromRotSeq_Postmultiplies(rotations) ==
    IF rotations = <<>> THEN IdentityQuaternion
    ELSE LET last == rotations[Len(rotations)]
             quaternion == GetQuaternionFromRotSeq_Postmultiplies(
                               SubSeq(rotations, 1, Len(rotations) - 1))
         IN MultiplyQuaternions(quaternion,
                                SetFromAxisAngle(AxisVector(last), last.degrees))

\* getQuaternionFromRotSeq: the quaternion after the forEach has reached the
\* end of the list is the last rotation premultiplied to the quaternion of
\* the rotations before it.
RECURSIVE GetQuaternionFromRotSeq(_)
GetQuaternionFromRotSeq(rotations) ==
    IF rotations = <<>> THEN IdentityQuaternion
    ELSE LET last == rotations[Len(rotations)]
             quaternion == GetQuaternionFromRotSeq(
                               SubSeq(rotations, 1, Len(rotations) - 1))
         IN Premultiply(quaternion,
                        SetFromAxisAngle(AxisVector(last), last.degrees))

CatalogFull ==
    [field3ds |-> ("F1" :> [widthInches |-> 651, heightInches |-> 315, rotations |-> RotSeqX] @@
                   "F2" :> [widthInches |-> 648, heightInches |-> 324, rotations |-> RotSeqXY]),
     robots   |-> ("R1" :> [cameras |-> <<Cam43, Cam169>>] @@
                   "R2" :> [cameras |-> <<Cam169>>])]

\* An edited catalog: F2 and R2 are gone and R1 declares one camera only.
CatalogEdited ==
    [field3ds |-> ("F1" :> [widthInches |-> 651, heightInches |-> 315, rotations |-> RotSeqX]),
     robots   |-> ("R1" :> [cameras |-> <<Cam43>>])]

Catalogs == {CatalogFull, CatalogEdited}

FieldTitles == {"F1", "F2"}
RobotTitles == {"R1", "R2"}
Alliances == {"blue", "red"}
Pose1 == Some(<<1, 2, 0>>)
RobotPoses == {None, Pose1}

\* The configuration snapshots handed to render().
Commands ==
    { [options |-> [field |-> f, robot |-> r, alliance |-> a],
       poses   |-> [robot |-> p]] :
        f \in FieldTitles, r \in RobotTitles, a \in Alliances, p \in RobotPoses }

CameraIndexes == -2 .. 2

\* clientWidth, clientHeight, devicePixelRatio, prefers-color-scheme
Display1 == [width |-> 800, height |-> 600, devicePixelRatio |-> 1, isDark |-> "false"]
Displays ==
    { Display1,
      [Display1 EXCEPT !.width = 640],
      [Display1 EXCEPT !.height = 480],
      [Display1 EXCEPT !.devicePixelRatio = 2],
      [Display1 EXCEPT !.isDark = "true"] }

PrefsModes == {"cinematic", "efficiency"}

\* JSON.stringify of a defined value: equal texts for equal values, and never
\* the empty string the last-seen fields start with.
JSONstringify(v) == <<v>>
EmptyString == <<>>

\* ------------------------------------------------------------------- state
VARIABLES
    \* environment
    frcData,             \* window.frcData
    preferences,         \* window.preferences (None until loaded)
    display,             \* canvas client size, devicePixelRatio, color scheme
    hidden,              \* content.hidden
    now,                 \* new Date().getTime()
    \* ThreeDimensionVisualizer fields
    command, shouldRender, cameraIndex, lastCameraIndex, lastFrameTime,
    lastDisplay,         \* lastWidth, lastHeight, lastDevicePixelRatio, lastIsDark
    lastAspectRatio, lastPrefsMode, lastFrcDataString, lastFieldTitle,
    lastRobotTitle, lastRobotVisible,
    field, robot,        \* node ids, 0 for null
    robotCameras,        \* sequence of camera mounts <<owner node, index>>
    \* three.js scene
    axesChildren,        \* model nodes attached to wpilibCoordinateGroup
    fieldChildren,       \* model nodes attached to wpilibFieldCoordinateGroup
    axesFrame,           \* transform of wpilibCoordinateGroup
    fieldFrame,          \* transform of wpilibFieldCoordinateGroup
    fieldRotation,       \* field.rotation, a quaternion (None while no field was loaded)
    cameraPose,          \* pose of the perspective camera
    controlsEnabled,     \* controls.enabled
    controlsLast,        \* camera pose at the controls' last "change" event
    \* loader and render loop
    loadCount,           \* GLTFLoader requests issued so far; a request's number
                         \* is also the id of the node its completion creates
    pending,             \* requests in flight: [id, kind, title, config, replaced];
                         \* config is the descriptor the callback closes over and
                         \* replaced the node the request took off the scene (0: none)
    canvasFrame,         \* what renderer.render() last drew (None before)
    loopAlive,           \* the requestAnimationFrame chain is still scheduled
    \* OdometryController and its inputs
    log,                 \* window.log: key -> series of [timestamp, value]
    enabledData,         \* getEnabledData(window.log): series of [timestamp, value]
    listFields,          \* getListFields()[0]: sequence of [key, type]
    unitDistance,        \* UNIT_DISTANCE.value
    unitRotation,        \* UNIT_ROTATION.value
    allianceOptions,     \* ALLIANCE_BUMPERS.value, ALLIANCE_ORIGIN.value and
                         \* getIsRedAlliance(window.log)
    time,                \* argument of the last getCommand call
    heatmapData,         \* getCommand's heatmapData after generation and sort
    heatmapKept,         \* the samples the heatmap filter kept, with timestamps
    odometryCommand      \* what getCommand last returned (None before)

envVars == <<frcData, preferences, display, hidden, now>>
thisVars == <<shouldRender, cameraIndex, lastCameraIndex, lastFrameTime,
              lastDisplay, lastAspectRatio, lastPrefsMode, lastFrcDataString,
              lastFieldTitle, lastRobotTitle, lastRobotVisible, field, robot,
              robotCameras, axesChildren, fieldChildren, axesFrame, fieldFrame, fieldRotation,
              cameraPose, controlsEnabled, controlsLast, loadCount, pending, canvasFrame,
              loopAlive>>
odometryVars == <<log, enabledData, listFields, unitDistance, unitRotation,
                  allianceOptions, time,
                  heatmapData, heatmapKept, odometryCommand>>
vars == <<envVars, command, thisVars, odometryVars>>

\* The mutable state renderFrame and the load callbacks work on, as one record.
This ==
    [shouldRender |-> shouldRender, cameraIndex |-> cameraIndex,
     lastCameraIndex |-> lastCameraIndex, lastFrameTime |-> lastFrameTime,
     lastDisplay |-> lastDisplay, lastAspectRatio |-> lastAspectRatio,
     lastPrefsMode |-> lastPrefsMode, lastFrcDataString |-> lastFrcDataString,
     lastFieldTitle |-> lastFieldTitle, lastRobotTitle |-> lastRobotTitle,
     lastRobotVisible |-> lastRobotVisible, field |-> field, robot |-> robot,
     robotCameras |-> robotCameras, axesChildren |-> axesChildren,
     fieldChildren |-> fieldChildren, axesFrame |-> axesFrame,
     fieldFrame |-> fieldFrame, fieldRotation |-> fieldRotation, cameraPose |-> cameraPose,
     controlsEnabled |-> controlsEnabled, controlsLast |-> controlsLast,
     loadCount |-> loadCount, pending |-> pending, canvasFrame |-> canvasFrame, loopAlive |-> loopAlive]

Becomes(t) ==
    /\ shouldRender' = t.shouldRender
    /\ cameraIndex' = t.cameraIndex
    /\ lastCameraIndex' = t.lastCameraIndex
    /\ lastFrameTime' = t.lastFrameTime
    /\ lastDisplay' = t.lastDisplay
    /\ lastAspectRatio' = t.lastAspectRatio
    /\ lastPrefsMode' = t.lastPrefsMode
    /\ lastFrcDataString' = t.lastFrcDataString
    /\ lastFieldTitle' = t.lastFieldTitle
    /\ lastRobotTitle' = t.lastRobotTitle
    /\ lastRobotVisible' = t.lastRobotVisible
    /\ field' = t.field
    /\ robot' = t.robot
    /\ robotCameras' = t.robotCameras
    /\ axesChildren' = t.axesChildren
    /\ fieldChildren' = t.fieldChildren
    /\ axesFrame' = t.axesFrame
    /\ fieldFrame' = t.fieldFrame
    /\ fieldRotation' = t.fieldRotation
    /\ cameraPose' = t.cameraPose
    /\ controlsEnabled' = t.controlsEnabled
    /\ controlsLast' = t.controlsLast
    /\ loadCount' = t.loadCount
    /\ pending' = t.pending
    /\ canvasFrame' = t.canvasFrame
    /\ loopAlive' = t.loopAlive

\* The OdometryController before any field is bound and any command asked for.
InitOdometry ==
    /\ log = <<>>
    /\ enabledData = <<>>
    /\ listFields = <<>>
    /\ unitDistance = "meters"
    /\ unitRotation = "radians"
    /\ allianceOptions = [bumpers |-> "auto", origin |-> "blue", autoRed |-> FALSE]
    /\ time = 0
    /\ heatmapData = <<>>
    /\ heatmapKept = <<>>
    /\ odometryCommand = None

\* The visualizer after its constructor.
\* The visualizer after its constructor, whatever the catalog.
InitScene ==
    /\ preferences = None
    /\ display \in Displays
    /\ hidden = FALSE
    /\ now = StartTime
    /\ command = None
    /\ shouldRender = FALSE
    /\ cameraIndex = -1
    /\ lastCameraIndex = -1
    /\ lastFrameTime = 0
    /\ lastDisplay = [width |-> 0, height |-> 0, devicePixelRatio |-> 0, isDark |-> "null"]
    /\ lastAspectRatio = None
    /\ lastPrefsMode = ""
    /\ lastFrcDataString = EmptyString
    /\ lastFieldTitle = ""
    /\ lastRobotTitle = ""
    /\ lastRobotVisible = FALSE
    /\ field = 0
    /\ robot = 0
    /\ robotCameras = <<>>
    /\ axesChildren = {}
    /\ fieldChildren = {}
    /\ axesFrame = "wpilib"
    /\ fieldFrame = [rotation |-> 0, position |-> <<0, 0, 0>>]
    /\ fieldRotation = None
    /\ cameraPose = "fieldDefault"
    /\ controlsEnabled = TRUE
    /\ controlsLast = "fieldDefault"
    /\ loadCount = 0
    /\ pending = {}
    /\ canvasFrame = None
    /\ loopAlive = TRUE

InitVisualizer == frcData \in Catalogs /\ InitScene

\* State after the constructors.
Init == InitVisualizer /\ InitOdometry

\* ------------------------------------------------- environment actions
SetFrcData(c) ==
    /\ c # frcData
    /\ frcData' = c
    /\ UNCHANGED <<odometryVars, preferences, display, hidden, now, command, thisVars>>

SetPreferences(m) ==
    /\ preferences # Some([threeDimensionMode |-> m])
    /\ preferences' = Some([threeDimensionMode |-> m])
    /\ UNCHANGED <<odometryVars, frcData, display, hidden, now, command, thisVars>>

Resize(d) ==
    /\ d # display
    /\ display' = d
    /\ UNCHANGED <<odometryVars, frcData, preferences, hidden, now, command, thisVars>>

SetHidden(b) ==
    /\ b # hidden
    /\ hidden' = b
    /\ UNCHANGED <<odometryVars, frcData, preferences, display, now, command, thisVars>>

AdvanceClock ==
    /\ now < StartTime + MaxAdvance * FrameMs
    /\ now' = now + FrameMs
    /\ UNCHANGED <<odometryVars, frcData, preferences, display, hidden, command, thisVars>>

\* --------------------------------------------------- public methods
\* render(command): the return value is lastAspectRatio.
Render(c) ==
    /\ command' = Some(c)
    /\ shouldRender' =
         IF command = None \/ JSONstringify(c) # JSONstringify(command[1])
         THEN TRUE ELSE shouldRender
    /\ UNCHANGED <<odometryVars, envVars, cameraIndex, lastCameraIndex, lastFrameTime,
                   lastDisplay, lastAspectRatio, lastPrefsMode, lastFrcDataString,
                   lastFieldTitle, lastRobotTitle, lastRobotVisible, field, robot,
                   robotCameras, axesChildren, fieldChildren, axesFrame, fieldFrame, fieldRotation,
                   cameraPose, controlsEnabled, controlsLast, loadCount, pending, canvasFrame,
                   loopAlive>>

Set3DCamera(index) ==
    /\ cameraIndex' = index
    /\ shouldRender' = TRUE
    /\ UNCHANGED <<odometryVars, envVars, command, lastCameraIndex, lastFrameTime,
                   lastDisplay, lastAspectRatio, lastPrefsMode, lastFrcDataString,
                   lastFieldTitle, lastRobotTitle, lastRobotVisible, field, robot,
                   robotCameras, axesChildren, fieldChildren, axesFrame, fieldFrame, fieldRotation,
                   cameraPose, controlsEnabled, controlsLast, loadCount, pending, canvasFrame,
                   loopAlive>>

\* ------------------------------------------------------ orbit controls
\* OrbitControls.update(): turns the camera towards the target and dispatches
\* "change" when the pose differs from the one at the last dispatch; the
\* listener registered in the constructor sets shouldRender.
LookAtTarget(pose) == IF pose = "mount" THEN "mountLook" ELSE pose

ControlsUpdate(t) ==
    LET pose == LookAtTarget(t.cameraPose) IN
    IF pose # t.controlsLast
    THEN [t EXCEPT !.cameraPose = pose, !.controlsLast = pose, !.shouldRender = TRUE]
    ELSE [t EXCEPT !.cameraPose = pose]

\* The user drags the orbit viewpoint (ignored while the controls are disabled).
MoveViewpoint ==
    /\ controlsEnabled
    /\ Becomes([This EXCEPT !.cameraPose = "user", !.controlsLast = "user",
                            !.shouldRender = TRUE])
    /\ UNCHANGED <<odometryVars, envVars, command>>

\* ------------------------------------------------------------ renderFrame
\* "Check for new render mode"
CheckPrefsMode(t) ==
    IF preferences # None /\ preferences[1].threeDimensionMode # t.lastPrefsMode
    THEN [t EXCEPT !.shouldRender = TRUE,
                   !.lastPrefsMode = preferences[1].threeDimensionMode]
    ELSE t

\* "Check for new size, device pixel ratio, or theme"
DisplayChanged(t) ==
    \/ display.width # t.lastDisplay.width
    \/ display.height # t.lastDisplay.height
    \/ display.devicePixelRatio # t.lastDisplay.devicePixelRatio
    \/ display.isDark # t.lastDisplay.isDark

CheckDisplay(t) ==
    IF DisplayChanged(t)
    THEN [t EXCEPT !.lastDisplay = display, !.shouldRender = TRUE]
    ELSE t

\* The interval rounded down to whole milliseconds.
Throttled_RoundsDown(t) ==
    /\ preferences # None
    /\ preferences[1].threeDimensionMode = "efficiency"
    /\ now - t.lastFrameTime < 1000 \div EFFICIENCY_MAX_FPS

\* "Limit FPS in efficiency mode": now - lastFrameTime < 1000 / EFFICIENCY_MAX_FPS
Throttled(t) ==
    /\ preferences # None
    /\ preferences[1].threeDimensionMode = "efficiency"
    /\ (now - t.lastFrameTime) * EFFICIENCY_MAX_FPS < 1000

\* "Get config": Array.find by title, None for undefined.
FindField(title) ==
    IF title \in DOMAIN frcData.field3ds THEN Some(frcData.field3ds[title]) ELSE None
\* A lookup that falls back to a catalog entry when the title is unknown.
FindRobot_FallsBack(title) ==
    IF title \in DOMAIN frcData.robots THEN Some(frcData.robots[title])
    ELSE Some(frcData.robots["R1"])
FindRobot(title) ==
    IF title \in DOMAIN frcData.robots THEN Some(frcData.robots[title]) ELSE None

\* AddField that asks again for as long as no field node is installed.
AddField_Retries(t, fieldTitle, fieldConfig) ==
    IF fieldTitle # t.lastFieldTitle \/ t.field = 0
    THEN [t EXCEPT
            !.lastFieldTitle = fieldTitle,
            !.axesChildren = IF t.field # 0 THEN @ \ {t.field} ELSE @,
            !.loadCount = @ + 1,
            !.pending = @ \cup {[id |-> t.loadCount + 1, kind |-> "field",
                                 title |-> fieldTitle, config |-> fieldConfig,
                                 replaced |-> IF t.field \in t.axesChildren
                                              THEN t.field ELSE 0]}]
    ELSE t

\* AddField without the removal of the installed field at request time.
AddField_KeepsPrevious(t, fieldTitle, fieldConfig) ==
    IF fieldTitle # t.lastFieldTitle
    THEN [t EXCEPT
            !.lastFieldTitle = fieldTitle,
            !.loadCount = @ + 1,
            !.pending = @ \cup {[id |-> t.loadCount + 1, kind |-> "field",
                                 title |-> fieldTitle, config |-> fieldConfig,
                                 replaced |-> IF t.field \in t.axesChildren
                                              THEN t.field ELSE 0]}]
    ELSE t

\* "Add field": request a new model when the title changed.
AddField(t, fieldTitle, fieldConfig) ==
    IF fieldTitle # t.lastFieldTitle
    THEN [t EXCEPT
            !.lastFieldTitle = fieldTitle,
            !.axesChildren = IF t.field # 0 THEN @ \ {t.field} ELSE @,
            !.loadCount = @ + 1,
            !.pending = @ \cup {[id |-> t.loadCount + 1, kind |-> "field",
                                 title |-> fieldTitle, config |-> fieldConfig,
                                 replaced |-> IF t.field \in t.axesChildren
                                              THEN t.field ELSE 0]}]
    ELSE t

\* AddRobot that looks at the title only.
AddRobot_IgnoresCatalog(t, robotTitle, robotConfig, newFrcData) ==
    IF robotTitle # t.lastRobotTitle
    THEN [t EXCEPT
            !.lastRobotTitle = robotTitle,
            !.fieldChildren = IF t.robot # 0 /\ t.lastRobotVisible
                              THEN @ \ {t.robot} ELSE @,
            !.robot = 0,
            !.robotCameras = <<>>,
            !.loadCount = @ + 1,
            !.pending = @ \cup {[id |-> t.loadCount + 1, kind |-> "robot",
                                 title |-> robotTitle, config |-> robotConfig,
                                 replaced |-> IF t.robot \in t.fieldChildren
                                              THEN t.robot ELSE 0]}]
    ELSE t

\* AddRobot that forgets the robot but leaves its node on the scene.
AddRobot_KeepsPrevious(t, robotTitle, robotConfig, newFrcData) ==
    IF robotTitle # t.lastRobotTitle \/ newFrcData
    THEN [t EXCEPT
            !.lastRobotTitle = robotTitle,
            !.robot = 0,
            !.robotCameras = <<>>,
            !.loadCount = @ + 1,
            !.pending = @ \cup {[id |-> t.loadCount + 1, kind |-> "robot",
                                 title |-> robotTitle, config |-> robotConfig,
                                 replaced |-> IF t.robot \in t.fieldChildren
                                              THEN t.robot ELSE 0]}]
    ELSE t

\* "Add robot": request a new model when the title or the catalog changed.
AddRobot(t, robotTitle, robotConfig, newFrcData) ==
    IF robotTitle # t.lastRobotTitle \/ newFrcData
    THEN [t EXCEPT
            !.lastRobotTitle = robotTitle,
            !.fieldChildren = IF t.robot # 0 /\ t.lastRobotVisible
                              THEN @ \ {t.robot} ELSE @,
            !.robot = 0,
            !.robotCameras = <<>>,
            !.loadCount = @ + 1,
            !.pending = @ \cup {[id |-> t.loadCount + 1, kind |-> "robot",
                                 title |-> robotTitle, config |-> robotConfig,
                                 replaced |-> IF t.robot \in t.fieldChildren
                                              THEN t.robot ELSE 0]}]
    ELSE t

\* convert(x, "inches", "meters") for x = halves/2 inches, in units of 0.1 mm.
ConvertHalfInchesToMeters(halves) == halves * 127

\* Field coordinates that flip the x translation only.
UpdateFieldCoordinates_FlipsXOnly(t, fieldConfig) ==
    LET isBlue == command[1].options.alliance = "blue"
        sign == IF isBlue THEN -1 ELSE 1
    IN [t EXCEPT !.fieldFrame =
          [rotation |-> IF isBlue THEN 0 ELSE 180,
           position |-> <<ConvertHalfInchesToMeters(fieldConfig.widthInches) * sign,
                          -ConvertHalfInchesToMeters(fieldConfig.heightInches),
                          0>>]]

\* "Update field coordinates"
UpdateFieldCoordinates(t, fieldConfig) ==
    LET isBlue == command[1].options.alliance = "blue"
        sign == IF isBlue THEN -1 ELSE 1
    IN [t EXCEPT !.fieldFrame =
          [rotation |-> IF isBlue THEN 0 ELSE 180,
           position |-> <<ConvertHalfInchesToMeters(fieldConfig.widthInches) * sign,
                          ConvertHalfInchesToMeters(fieldConfig.heightInches) * sign,
                          0>>]]

\* "Set robot position"
SetRobotPosition(t) ==
    IF t.robot # 0
    THEN LET robotPose == command[1].poses.robot IN
         [t EXCEPT
            !.fieldChildren =
                IF robotPose # None
                THEN (IF ~t.lastRobotVisible THEN @ \cup {t.robot} ELSE @)
                ELSE (IF t.lastRobotVisible THEN @ \ {t.robot} ELSE @),
            !.lastRobotVisible = robotPose # None]
    ELSE t

\* "Set camera for fixed views".  Reading a camera descriptor the current
\* robotConfig does not declare throws, which ends the render loop.
\* The bound check off by one: an index equal to the mount count is kept.
ResetCameraIndex_OffByOne(t) ==
    IF t.cameraIndex > Len(t.robotCameras) THEN [t EXCEPT !.cameraIndex = -1] ELSE t

ResetCameraIndex(t) ==
    IF t.cameraIndex >= Len(t.robotCameras) THEN [t EXCEPT !.cameraIndex = -1] ELSE t

UpdateCameraControls(t) ==
    LET orbitalCamera == t.cameraIndex < 0 IN
    IF orbitalCamera # t.controlsEnabled
    THEN ControlsUpdate([t EXCEPT !.controlsEnabled = orbitalCamera])
    ELSE t

\* An orbit view that returns to the default viewpoint in every redraw.
OrbitView_ResetsEveryFrame(t) ==
    LET t1 == [t EXCEPT !.axesFrame =
                  IF t.cameraIndex = -1 THEN "wpilib"
                  ELSE IF t.robot # 0 THEN "robotRelative" ELSE @]
    IN ControlsUpdate([t1 EXCEPT !.cameraPose =
               IF t1.cameraIndex = -1 THEN "fieldDefault" ELSE "robotDefault"])

OrbitView(t) ==
    LET t1 == [t EXCEPT !.axesFrame =
                  IF t.cameraIndex = -1 THEN "wpilib"
                  ELSE IF t.robot # 0 THEN "robotRelative" ELSE @]
    IN IF t1.cameraIndex # t1.lastCameraIndex
       THEN ControlsUpdate([t1 EXCEPT !.cameraPose =
               IF t1.cameraIndex = -1 THEN "fieldDefault" ELSE "robotDefault"])
       ELSE t1

FixedView(t, robotConfig) ==
    IF t.cameraIndex + 1 > Len(robotConfig.cameras)
    THEN [t EXCEPT !.loopAlive = FALSE]
    ELSE LET cameraConfig == robotConfig.cameras[t.cameraIndex + 1] IN
         [t EXCEPT !.lastAspectRatio = Some(cameraConfig.resolution),
                   !.cameraPose = IF t.lastRobotVisible THEN "mount" ELSE @]

\* A camera update that keeps the aspect ratio of the previous redraw.
UpdateCamera_KeepsRatio(t, robotConfig) ==
    LET t1 == UpdateCameraControls(ResetCameraIndex(t))
        t3 == IF t1.cameraIndex < 0 THEN OrbitView(t1) ELSE FixedView(t1, robotConfig)
    IN IF t3.loopAlive THEN [t3 EXCEPT !.lastCameraIndex = t3.cameraIndex] ELSE t3

UpdateCamera(t, robotConfig) ==
    LET t1 == UpdateCameraControls(ResetCameraIndex(t))
        t2 == [t1 EXCEPT !.lastAspectRatio = None]
        t3 == IF t2.cameraIndex < 0 THEN OrbitView(t2) ELSE FixedView(t2, robotConfig)
    IN IF t3.loopAlive THEN [t3 EXCEPT !.lastCameraIndex = t3.cameraIndex] ELSE t3

\* "Render new frame": renderer.render(scene, camera)
Composite(t) ==
    [t EXCEPT !.canvasFrame =
        Some([fields |-> t.axesChildren, robots |-> t.fieldChildren])]

\* Everything after the gate and the config lookup.
Redraw(t, fieldConfig, robotConfig) ==
    LET fieldTitle == command[1].options.field
        robotTitle == command[1].options.robot
        frcDataString == JSONstringify(frcData)
        newFrcData == frcDataString # t.lastFrcDataString
        t1 == IF newFrcData THEN [t EXCEPT !.lastFrcDataString = frcDataString] ELSE t
        t2 == AddField(t1, fieldTitle, fieldConfig)
        t3 == AddRobot(t2, robotTitle, robotConfig, newFrcData)
        t4 == UpdateFieldCoordinates(t3, fieldConfig)
        t5 == SetRobotPosition(t4)
        t6 == UpdateCamera(t5, robotConfig)
    IN IF t6.loopAlive THEN Composite(t6) ELSE t6

\* A gate without the visibility check.
Gate_IgnoresHidden(t) ==
    IF command = None THEN "noCommand"
    ELSE IF Throttled(t) THEN "throttled"
    ELSE IF ~t.shouldRender THEN "idle"
    ELSE "pass"

\* A gate without the pending-flag check.
Gate_IgnoresFlag(t) ==
    IF command = None THEN "noCommand"
    ELSE IF hidden THEN "hidden"
    ELSE IF Throttled(t) THEN "throttled"
    ELSE "pass"

\* The gate: which early return, if any, a tick takes after the checks.
Gate(t) ==
    IF command = None THEN "noCommand"
    ELSE IF hidden THEN "hidden"
    ELSE IF Throttled(t) THEN "throttled"
    ELSE IF ~t.shouldRender THEN "idle"
    ELSE "pass"

\* Past the gate: the redraw is stamped and the pending flag consumed.
PassGate(t) == [t EXCEPT !.lastFrameTime = now, !.shouldRender = FALSE]

RenderFrame(t) ==
    LET t1 == CheckDisplay(CheckPrefsMode(t)) IN
    IF Gate(t1) # "pass" THEN t1
    ELSE LET t2 == PassGate(t1)
             fieldConfig == FindField(command[1].options.field)
             robotConfig == FindRobot(command[1].options.robot)
         IN IF fieldConfig = None \/ robotConfig = None THEN t2
            ELSE Redraw(t2, fieldConfig[1], robotConfig[1])

\* One requestAnimationFrame callback.
Tick ==
    /\ loopAlive
    /\ LET t == RenderFrame(This) IN
       /\ t.loadCount <= MaxLoads
       /\ Becomes(t)
    /\ UNCHANGED <<odometryVars, envVars, command>>

\* --------------------------------------------------- loader callbacks
\* A callback that installs the node without asking for a redraw.
FieldLoadCallback_NoRedraw(t, l) ==
    [t EXCEPT !.field = l.id,
              !.fieldRotation = GetQuaternionFromRotSeq(l.config.rotations),
              !.axesChildren = @ \cup {l.id},
              !.pending = @ \ {l}]

\* onLoad of the field request l: fieldConfig is the closure's captured config.
FieldLoadCallback(t, l) ==
    LET fieldConfig == l.config IN
    [t EXCEPT !.field = l.id,
              !.fieldRotation = GetQuaternionFromRotSeq(fieldConfig.rotations),
              !.axesChildren = @ \cup {l.id},
              !.shouldRender = TRUE,
              !.pending = @ \ {l}]

\* A robot callback that attaches the node whatever the visibility flag says.
RobotLoadCallback_AlwaysAttaches(t, l) ==
    LET robotConfig == l.config IN
    [t EXCEPT !.robot = l.id,
              !.fieldChildren = @ \cup {l.id},
              !.robotCameras = [i \in 1 .. Len(robotConfig.cameras) |-> <<l.id, i - 1>>],
              !.shouldRender = TRUE,
              !.pending = @ \ {l}]

\* onLoad of the robot request l.
RobotLoadCallback(t, l) ==
    LET robotConfig == l.config IN
    [t EXCEPT !.robot = l.id,
              !.fieldChildren = IF t.lastRobotVisible THEN @ \cup {l.id} ELSE @,
              !.robotCameras = [i \in 1 .. Len(robotConfig.cameras) |-> <<l.id, i - 1>>],
              !.shouldRender = TRUE,
              !.pending = @ \ {l}]

\* Loads complete in any order.
LoadCompletes(l) ==
    /\ l \in pending
    /\ Becomes(IF l.kind = "field" THEN FieldLoadCallback(This, l)
               ELSE RobotLoadCallback(This, l))
    /\ UNCHANGED <<odometryVars, envVars, command>>

\* A load that fails: load() was given no onError callback, nothing runs.
LoadFails(l) ==
    /\ l \in pending
    /\ Becomes([This EXCEPT !.pending = @ \ {l}])
    /\ UNCHANGED <<odometryVars, envVars, command>>

\* ------------------------------------------------------- specification
\* The whole program under an unconstrained environment.
Next ==
    \/ \E c \in Catalogs : SetFrcData(c)
    \/ \E m \in PrefsModes : SetPreferences(m)
    \/ \E d \in Displays : Resize(d)
    \/ \E b \in BOOLEAN : SetHidden(b)
    \/ AdvanceClock
    \/ \E c \in Commands : Render(c)
    \/ \E i \in CameraIndexes : Set3DCamera(i)
    \/ MoveViewpoint
    \/ Tick
    \/ \E l \in pending : LoadCompletes(l)
    \/ \E l \in pending : LoadFails(l)

Spec == Init /\ [][Next]_vars

\* The product of all inputs is beyond exhaustive search, so the claims are
\* checked under three specifications of the same actions, each letting one
\* part of the environment vary in full and holding the rest still.

\* Asset lifecycle: every field/robot id and pose, both catalogs, loads that
\* complete in any order or fail; always visible, no throttle, free orbit.
AssetCommands == { c \in Commands : c.options.alliance = "blue" }

InitAssets == Init /\ display = Display1

NextAssets ==
    \/ \E c \in Catalogs : SetFrcData(c)
    \/ \E c \in AssetCommands : Render(c)
    \/ Tick
    \/ \E l \in pending : LoadCompletes(l)
    \/ \E l \in pending : LoadFails(l)

SpecAssets == InitAssets /\ [][NextAssets]_vars

\* Camera selection: every camera index against robots with 2, 1 and 0 loaded
\* mounts, robot id and catalog changes; the field and the pose stay put.
CameraCommands ==
    { c \in Commands : /\ c.options.alliance = "blue"
                       /\ c.options.field = "F1"
                       /\ c.poses.robot # None }

NextCamera ==
    \/ \E c \in Catalogs : SetFrcData(c)
    \/ \E c \in CameraCommands : Render(c)
    \/ \E i \in CameraIndexes : Set3DCamera(i)
    \/ MoveViewpoint
    \/ Tick
    \/ \E l \in pending : LoadCompletes(l)
    \/ \E l \in pending : LoadFails(l)

SpecCamera == InitAssets /\ [][NextCamera]_vars

\* Scheduler: preferences, display, visibility and the clock vary; one
\* snapshot with a field, a robot and a robot pose from the full catalog.
SchedulerCommands ==
    { c \in Commands : /\ c.options.alliance = "blue"
                       /\ c.options.field = "F1"
                       /\ c.options.robot = "R1"
                       /\ c.poses.robot # None }

InitScheduler == Init /\ display = Display1 /\ frcData = CatalogFull

NextScheduler ==
    \/ \E m \in PrefsModes : SetPreferences(m)
    \/ \E d \in Displays : Resize(d)
    \/ \E b \in BOOLEAN : SetHidden(b)
    \/ AdvanceClock
    \/ \E c \in SchedulerCommands : Render(c)
    \/ \E i \in {-1, 0} : Set3DCamera(i)
    \/ MoveViewpoint
    \/ Tick
    \/ \E l \in pending : LoadCompletes(l)

SpecScheduler == InitScheduler /\ [][NextScheduler]_vars

\* ================================================================= claims
\* Helpers for stating the claims.
DesiredTitle(kind) ==
    IF kind = "field" THEN command[1].options.field ELSE command[1].options.robot
LastRequestedTitle(kind) ==
    IF kind = "field" THEN lastFieldTitle ELSE lastRobotTitle

\* The request l was superseded: neither the snapshot nor the latest request
\* of its slot names its title any more.
StaleLoad(l) ==
    /\ command # None
    /\ l.title # DesiredTitle(l.kind)
    /\ l.title # LastRequestedTitle(l.kind)

\* C1: a load completion whose requested id is no longer the desired id
\* installs nothing: the current field and robot nodes, the nodes attached to
\* the scene and the camera mounts are as before the completion.
C1_StaleLoadInstallsNothing ==
    [][\A l \in pending :
          (LoadCompletes(l) /\ StaleLoad(l)) =>
              UNCHANGED <<field, robot, axesChildren, fieldChildren, robotCameras>>]_vars

\* C2: at most one field node is attached to the telemetry-axes frame and at
\* most one robot node to the field frame, in every reachable state.
C2_SingletonSceneNodes ==
    /\ Cardinality(axesChildren) <= 1
    /\ Cardinality(fieldChildren) <= 1

\* The children of the frame a slot's node is attached to.
SlotChildren(kind) == IF kind = "field" THEN axesChildren ELSE fieldChildren
SlotNode(kind) == IF kind = "field" THEN field ELSE robot
FrameNodes(frame, kind) == IF kind = "field" THEN frame.fields ELSE frame.robots

Created(n) == n \in 1 .. loadCount /\ \A l \in pending : l.id # n
Discarded(n) ==
    /\ Created(n)
    /\ n \notin axesChildren \cup fieldChildren
    /\ n # robot

ThrottleActive ==
    /\ preferences # None
    /\ preferences[1].threeDimensionMode = "efficiency"
    /\ (now - lastFrameTime) * EFFICIENCY_MAX_FPS < 1000
TriggerPending ==
    \/ shouldRender
    \/ display # lastDisplay
    \/ preferences # None /\ preferences[1].threeDimensionMode # lastPrefsMode
GateOpen == command # None /\ ~hidden /\ ~ThrottleActive /\ TriggerPending
FieldResolves == command[1].options.field \in DOMAIN frcData.field3ds
RobotResolves == command[1].options.robot \in DOMAIN frcData.robots
Requests(kind) ==
    \E l \in pending' \ pending : l.kind = kind /\ l.title = DesiredTitle(kind)

\* C9 as claimed: a redraw whose snapshot resolves only one of the two ids
\* still requests the resolvable slot's load if its id changed, updates the
\* camera state and composites the frame.
C9_FrameProceedsForResolvableSlot ==
    [][(Tick /\ GateOpen /\ FieldResolves # RobotResolves) =>
          /\ (FieldResolves /\ DesiredTitle("field") # lastFieldTitle) => Requests("field")
          /\ (RobotResolves /\ DesiredTitle("robot") # lastRobotTitle) => Requests("robot")
          /\ lastCameraIndex' = cameraIndex'
          /\ canvasFrame' # None]_vars

\* C9 amended: a redraw that passes the gate with a snapshot whose field id or
\* robot id is absent from the catalog skips the whole frame: the pending flag
\* is consumed and the redraw time stamped, but no load is requested for
\* either slot, no node, transform or camera state changes and nothing is
\* composited.
C9_MissingReferenceSkipsFrame ==
    [][(Tick /\ GateOpen /\ ~(FieldResolves /\ RobotResolves)) =>
          /\ shouldRender' = FALSE
          /\ lastFrameTime' = now
          /\ UNCHANGED <<loadCount, pending, field, robot, robotCameras,
                         axesChildren, fieldChildren, axesFrame, fieldFrame, fieldRotation,
                         cameraIndex, lastCameraIndex, lastAspectRatio,
                         lastFieldTitle, lastRobotTitle, lastFrcDataString,
                         lastRobotVisible, cameraPose, controlsEnabled,
                         controlsLast, canvasFrame, loopAlive>>]_vars

\* A redraw was consumed with the field resolving and the robot missing:
\* nothing was requested or drawn.
C9_Witness ==
    /\ command # None
    /\ FieldResolves /\ ~RobotResolves
    /\ lastFrameTime = now
    /\ ~shouldRender
    /\ lastFieldTitle = ""
    /\ loadCount = 0
    /\ canvasFrame = None

\* C10: the camera index starts at -1; every redraw that resolves both ids
\* leaves the index below the number of camera mounts, replacing a selected
\* index >= that number by -1 and keeping every other index as selected.
C10_CameraIndexClamp ==
    /\ cameraIndex = -1 /\ lastCameraIndex = -1
    /\ [][(Tick /\ GateOpen /\ FieldResolves /\ RobotResolves) =>
             /\ cameraIndex' < Len(robotCameras')
             /\ cameraIndex' = IF cameraIndex >= Len(robotCameras') THEN -1
                               ELSE cameraIndex
             /\ loopAlive' => lastCameraIndex' = cameraIndex']_vars

\* A completed redraw kept the selected index 1 of a robot with two mounts.
C10_Witness ==
    /\ cameraIndex = 1
    /\ lastCameraIndex = 1
    /\ Len(robotCameras) = 2
    /\ lastAspectRatio = Some(<<16, 9>>)
    /\ ~shouldRender
    /\ canvasFrame # None

\* A tick at which a snapshot is set, the view is visible and the throttle
\* interval has elapsed.
EligibleTick == command # None /\ ~hidden /\ ~ThrottleActive /\ Tick

C6_ThrottleDefers ==
    [][/\ ( /\ lastFrameTime' # lastFrameTime
            /\ preferences # None
            /\ preferences[1].threeDimensionMode = "efficiency" ) =>
             (lastFrameTime' - lastFrameTime) * 15 >= 1000
       /\ (command # None /\ ~hidden /\ ThrottleActive /\ Tick) =>
             /\ lastFrameTime' = lastFrameTime
             /\ canvasFrame' = canvasFrame
             /\ TriggerPending => shouldRender'
       /\ (shouldRender /\ EligibleTick) => lastFrameTime' = now]_vars

\* Efficiency mode, 66 ms after the last redraw: a trigger is pending and the
\* tick that noticed the display change was throttled.
C6_Witness ==
    /\ preferences = Some([threeDimensionMode |-> "efficiency"])
    /\ lastPrefsMode = "efficiency"
    /\ command # None /\ ~hidden
    /\ lastFrameTime >= StartTime
    /\ now - lastFrameTime = 2 * FrameMs
    /\ canvasFrame # None
    /\ display # Display1 /\ lastDisplay = display
    /\ shouldRender

\* C7: a tick while the view is hidden performs no redraw, the loop keeps
\* running and every trigger raised while hidden stays pending; the first
\* eligible tick after the view is visible again performs the redraw.
C7_HiddenViewDefers ==
    [][/\ (hidden /\ Tick) =>
             /\ UNCHANGED <<lastFrameTime, canvasFrame, loadCount, pending,
                            axesChildren, fieldChildren>>
             /\ loopAlive'
             /\ TriggerPending => shouldRender'
       /\ hidden =>
             /\ \A c \in Commands : (Render(c) /\ command # Some(c)) => shouldRender'
             /\ (\E l \in pending : LoadCompletes(l)) => shouldRender'
             /\ (\E i \in CameraIndexes : Set3DCamera(i)) => shouldRender'
             /\ shouldRender => shouldRender'
       /\ (shouldRender /\ EligibleTick) =>
             /\ lastFrameTime' = now
             /\ (FieldResolves /\ RobotResolves /\ loopAlive') => canvasFrame' # None]_vars

\* Hidden with a load completed and a display change noticed by a tick, both
\* still pending, and the frame on the canvas older than the loaded field.
C7_Witness ==
    /\ hidden
    /\ command # None
    /\ field # 0
    /\ canvasFrame # None /\ canvasFrame[1].fields = {}
    /\ display # Display1 /\ lastDisplay = display
    /\ shouldRender
    /\ loopAlive

\* C8: a tick that does not pass the gate issues no load request and changes
\* no node, camera mount, frame transform, camera index, aspect ratio,
\* last-requested id, last-seen catalog or last-redraw time.
C8_GateIsolation ==
    [][(~GateOpen /\ Tick) =>
          UNCHANGED <<loadCount, pending, field, robot, robotCameras,
                      axesChildren, fieldChildren, axesFrame, fieldFrame, fieldRotation,
                      cameraIndex, lastCameraIndex, lastAspectRatio,
                      lastFieldTitle, lastRobotTitle, lastFrcDataString,
                      lastFrameTime, canvasFrame>>]_vars

\* A throttled tick noticed a display change while camera 0 was selected:
\* the index, the nodes and the redraw time are as the last redraw left them.
C8_Witness ==
    /\ command # None /\ ~hidden
    /\ preferences = Some([threeDimensionMode |-> "efficiency"])
    /\ lastPrefsMode = "efficiency"
    /\ lastDisplay = display /\ display # Display1
    /\ shouldRender
    /\ cameraIndex = 0 /\ lastCameraIndex = -1
    /\ now - lastFrameTime = FrameMs
    /\ field # 0 /\ robot # 0

\* The default viewpoint of an orbit index: field overview for -1, robot
\* overview for the other negative indices.
DefaultViewpoint(index) == IF index = -1 THEN "fieldDefault" ELSE "robotDefault"

\* C11: a completed redraw puts the orbit viewpoint at the default of the
\* effective camera index exactly when that index is an orbit index differing
\* from the index of the previous completed redraw; a redraw with an unchanged
\* orbit index leaves the viewpoint, moved by the user or not, as it was.
C11_ViewpointResetOnIndexChange ==
    [][(Tick /\ GateOpen /\ FieldResolves /\ RobotResolves /\ loopAlive') =>
          /\ (cameraIndex' < 0 /\ cameraIndex' # lastCameraIndex) =>
                /\ cameraPose' = DefaultViewpoint(cameraIndex')
                /\ controlsLast' = cameraPose'
          /\ (cameraIndex' < 0 /\ cameraIndex' = lastCameraIndex) =>
                /\ cameraPose' = cameraPose
                /\ controlsLast' = controlsLast]_vars

\* The robot overview was selected, the user moved the viewpoint and a later
\* redraw with the same index left it where the user put it.
C11_Witness ==
    /\ cameraIndex = -2 /\ lastCameraIndex = -2
    /\ cameraPose = "user"
    /\ canvasFrame # None
    /\ lastFrameTime = now
    /\ ~shouldRender

\* The camera list the catalog declares for the snapshot's robot.
DeclaredCameras == frcData.robots[command[1].options.robot].cameras

Issued(kind) == { l \in pending' \ pending : l.kind = kind }
\* A tick that passes the gate and finds both ids in the catalog.
ResolvedRedraw == GateOpen /\ FieldResolves /\ RobotResolves /\ Tick

\* C13: a redraw that passes the gate and resolves both ids issues a robot
\* load exactly when the snapshot's robot id differs from the last requested
\* robot id or the catalog differs from the one seen by the previous such
\* redraw; the request is for the snapshot's id with the catalog's current
\* descriptor, and it leaves no current robot node and no camera mounts.
C13_RobotReplacementTrigger ==
    [][ResolvedRedraw =>
          /\ Issued("robot") # {} <=>
                \/ DesiredTitle("robot") # lastRobotTitle
                \/ JSONstringify(frcData) # lastFrcDataString
          /\ \A l \in Issued("robot") :
                /\ l.title = DesiredTitle("robot")
                /\ l.config = frcData.robots[l.title]
                /\ robot' = 0
                /\ robotCameras' = <<>>
                /\ lastRobotTitle' = l.title
          /\ lastFrcDataString' = JSONstringify(frcData)]_vars

\* After a catalog edit the load of the same robot id was issued again while
\* the first was still in flight: two requests, one id, two descriptors.
C13_Witness ==
    /\ robotCameras = <<>>
    /\ robot = 0
    /\ \E l1, l2 \in pending :
          /\ l1.kind = "robot" /\ l2.kind = "robot"
          /\ l1.title = l2.title
          /\ l2.title = lastRobotTitle
          /\ l1.config # l2.config
          /\ l2.config = frcData.robots[l2.title]

\* C14: a field load is issued only by a redraw whose snapshot's field id
\* differs from the last requested field id, and a redraw that resolves both
\* ids issues one exactly then; with the id unchanged no redraw issues a
\* field load, whatever happened to the earlier load or to the catalog.
C14_FieldReplacementOnIdChange ==
    [][/\ Issued("field") # {} =>
             /\ command # None
             /\ DesiredTitle("field") # lastFieldTitle
             /\ \A l \in Issued("field") : l.title = DesiredTitle("field")
             /\ lastFieldTitle' = DesiredTitle("field")
       /\ ResolvedRedraw =>
             (Issued("field") # {} <=> DesiredTitle("field") # lastFieldTitle)
       /\ (command # None /\ DesiredTitle("field") = lastFieldTitle) =>
             /\ Issued("field") = {}
             /\ lastFieldTitle' = lastFieldTitle]_vars

\* The only field load failed, the catalog was edited and the robot load was
\* issued again for it, and the last redraw still drew no field and asked
\* for none.
C14_Witness ==
    /\ field = 0
    /\ \A l \in pending : l.kind = "robot"
    /\ command # None
    /\ lastFieldTitle = DesiredTitle("field")
    /\ lastFrcDataString = JSONstringify(CatalogEdited)
    /\ loadCount = 3
    /\ \E l1, l2 \in pending : l1.title = l2.title /\ l1.config # l2.config
    /\ canvasFrame # None /\ canvasFrame[1].fields = {}
    /\ ~shouldRender

\* C15: whenever a robot node exists and the last redraw requested the
\* snapshot's robot id under the current catalog, the number of camera mounts
\* equals the number of cameras the catalog declares for that robot id.
C15_CameraMountCount ==
    ( /\ robot # 0
      /\ command # None
      /\ RobotResolves
      /\ lastRobotTitle = DesiredTitle("robot")
      /\ lastFrcDataString = JSONstringify(frcData) ) =>
        Len(robotCameras) = Len(DeclaredCameras)

\* C25: every redraw that reaches the fixed-camera branch does so with a
\* camera index that is valid both in the loaded camera mounts and in the
\* camera list the catalog declares for the snapshot's robot id, and the
\* frame completes.
C25_FixedIndexValidInBoth ==
    [][(ResolvedRedraw /\ cameraIndex' >= 0) =>
          /\ cameraIndex' < Len(robotCameras')
          /\ cameraIndex' < Len(DeclaredCameras)
          /\ loopAlive']_vars

\* C26: at the end of every completed redraw that leaves a current robot
\* node, the node is attached to the field frame exactly when the snapshot's
\* robot pose is non-null, and lastRobotVisible equals that attachment state.
C26_RobotVisibilityConsistent ==
    [][(ResolvedRedraw /\ robot' # 0 /\ loopAlive') =>
          /\ (robot' \in fieldChildren') <=> (command[1].poses.robot # None)
          /\ lastRobotVisible' <=> (robot' \in fieldChildren')]_vars

\* A redraw with a loaded robot node and a snapshot without a robot pose has
\* been drawn: the node is off the field frame and the flag is FALSE.
C26_Witness ==
    /\ robot # 0
    /\ command # None
    /\ command[1].poses.robot = None
    /\ ~lastRobotVisible
    /\ robot \notin fieldChildren
    /\ ~shouldRender
    /\ canvasFrame # None
    /\ canvasFrame[1].robots = {}

\* Catalog growth: the snapshot selects a robot id the catalog does not have
\* yet; the catalog later gains it and keeps it. The view is visible and not
\* throttled; the display and the camera raise further triggers at will.
CatalogCommands ==
    { c \in Commands : /\ c.options.alliance = "blue"
                       /\ c.options.field = "F1"
                       /\ c.options.robot = "R2"
                       /\ c.poses.robot # None }

InitCatalog == Init /\ display = Display1 /\ frcData = CatalogEdited

NextCatalog ==
    \/ SetFrcData(CatalogFull)
    \/ \E c \in CatalogCommands : Render(c)
    \/ \E d \in Displays : Resize(d)
    \/ \E i \in {-1, 0} : Set3DCamera(i)
    \/ MoveViewpoint
    \/ Tick
    \/ \E l \in pending : LoadCompletes(l)

SpecCatalog == InitCatalog /\ [][NextCatalog]_vars

\* C27: a redraw trigger raised while a snapshot is set is not lost: when the
\* view is visible and unthrottled, both selected ids resolve and no trigger
\* is pending any more (so that ticks do nothing until a further trigger),
\* the trigger that render() raised with the snapshot has been followed by a
\* composited frame - also when a tick consumed it while an id did not
\* resolve yet.
C27_ConsumedTriggerHonoured ==
    ( /\ command # None
      /\ loopAlive
      /\ ~hidden
      /\ ~ThrottleActive
      /\ FieldResolves /\ RobotResolves
      /\ ~TriggerPending ) => canvasFrame # None

\* ===================================================== OdometryController
\* Time is counted in twentieths of a second, so that timestamps can fall
\* strictly inside one heatmap interval.
HEATMAP_DT == 2
TRAIL_LENGTH_SECS == 100
\* Beyond every timestamp of the log.
Infinity == 1000000

MaxSamples == 2
MaxHeatmapSamples == 3

\* Raw log values: translation only, one pose, another pose, two poses, and
\* a 14-length value that is none of the accepted shapes.
Value2 == <<10, 20>>
Value3 == <<10, 20, 90>>
Value3b == <<30, 40, 180>>
Value6 == <<10, 20, 90, 30, 40, 180>>
Value14 == <<1, 2, 3, 4, 5, 6, 7, 8, 9, 10, 11, 12, 13, 14>>
RawValues == {Value2, Value3, Value3b, Value6, Value14}

\* Timestamps of raw samples: negative, zero, inside the first heatmap
\* interval, and 1.0 s (20 units) and more apart.
Timestamps == {-1, 0, 1, 2, 3, 5, 20}

Sample(t, v) == [timestamp |-> t, value |-> v]

\* Series of up to n samples with strictly increasing timestamps.
RECURSIVE SeriesFrom(_, _, _)
SeriesFrom(n, after, values) ==
    IF n = 0 THEN {<<>>}
    ELSE {<<>>} \cup
         UNION { { <<Sample(t, v)>> \o rest : rest \in SeriesFrom(n - 1, t, values) } :
                 t \in {x \in Timestamps : x > after}, v \in values }

\* The log of a point-role key, and the log of a heatmap key (whose values
\* encode one pose, two poses, or nothing the heatmap reads).
AllSeries == SeriesFrom(MaxSamples, -Infinity, RawValues)
HeatmapValues == {Value3, Value6, Value2}
AllHeatmapSeries == SeriesFrom(MaxHeatmapSamples, -Infinity, HeatmapValues)

Min(S) == CHOOSE x \in S : \A y \in S : x <= y
Max(S) == CHOOSE x \in S : \A y \in S : x >= y

\* convert(value, unit, "meters"), lengths in tenths of a millimetre.
ConvertDistance(value, unit) ==
    IF unit = "meters" THEN value * 10000 ELSE value * 254

\* convert(value, unit, "radians"), angles in microradians.
ConvertRotation(value, unit) ==
    IF unit = "radians" THEN value * 1000000 ELSE value * 17453

\* window.log.getNumberArray(key, start, end): nothing for a key the log does
\* not have; otherwise the samples from the last one at-or-before start (the
\* first one if there is none) up to the first one after end.
GetNumberArray(key, start, end) ==
    IF key \notin DOMAIN log THEN None
    ELSE LET series == log[key]
             before == {i \in 1 .. Len(series) : series[i].timestamp <= start}
             after == {i \in 1 .. Len(series) : series[i].timestamp > end}
             first == IF before = {} THEN 1 ELSE Max(before)
             last == IF after = {} THEN Len(series) ELSE Min(after)
         IN Some(SubSeq(series, first, last))

\* A decoder without the shape check.
GetCurrentValue_AnyLength(key, t) ==
    LET logData == GetNumberArray(key, t, t) IN
    IF /\ logData # None
       /\ Len(logData[1]) > 0
       /\ logData[1][1].timestamp <= t
    THEN LET value == logData[1][1].value IN
         IF Len(value) = 2
         THEN << [translation |-> <<ConvertDistance(value[1], unitDistance),
                                    ConvertDistance(value[2], unitDistance)>>,
                  rotation |-> 0] >>
         ELSE [i \in 1 .. Len(value) \div 3 |->
                 [translation |-> <<ConvertDistance(value[3 * i - 2], unitDistance),
                                    ConvertDistance(value[3 * i - 1], unitDistance)>>,
                  rotation |-> ConvertRotation(value[3 * i], unitRotation)]]
    ELSE <<>>

\* getCurrentValue(key): "Returns the current value for a field"
GetCurrentValue(key, t) ==
    LET logData == GetNumberArray(key, t, t) IN
    IF /\ logData # None
       /\ Len(logData[1]) > 0
       /\ logData[1][1].timestamp <= t
       /\ \/ Len(logData[1][1].value) = 2
          \/ Len(logData[1][1].value) % 3 = 0
    THEN LET value == logData[1][1].value IN
         IF Len(value) = 2
         THEN << [translation |-> <<ConvertDistance(value[1], unitDistance),
                                    ConvertDistance(value[2], unitDistance)>>,
                  rotation |-> 0] >>
         ELSE [i \in 1 .. Len(value) \div 3 |->
                 [translation |-> <<ConvertDistance(value[3 * i - 2], unitDistance),
                                    ConvertDistance(value[3 * i - 1], unitDistance)>>,
                  rotation |-> ConvertRotation(value[3 * i], unitRotation)]]
    ELSE <<>>

\* concat of getCurrentValue over the bound fields of one type, in list order.
RECURSIVE PosesOfType(_, _, _)
PosesOfType(fields, type, t) ==
    IF fields = <<>> THEN <<>>
    ELSE (IF Head(fields).type = type THEN GetCurrentValue(Head(fields).key, t)
          ELSE <<>>) \o PosesOfType(Tail(fields), type, t)

\* "Trajectory": one pose list pushed per bound field.
RECURSIVE TrajectoriesOf(_, _)
TrajectoriesOf(fields, t) ==
    IF fields = <<>> THEN <<>>
    ELSE (IF Head(fields).type = "Trajectory"
          THEN <<GetCurrentValue(Head(fields).key, t)>>
          ELSE <<>>) \o TrajectoriesOf(Tail(fields), t)

\* A trim that also removes a first sample exactly at the window's edge.
TrimmedTrail_TrimsEdge(key, t) ==
    LET trailLogData == GetNumberArray(key, t - TRAIL_LENGTH_SECS, t + TRAIL_LENGTH_SECS) IN
    IF trailLogData = None THEN <<>>
    ELSE LET all == trailLogData[1]
             shifted == IF Len(all) > 0 /\ t - all[1].timestamp >= TRAIL_LENGTH_SECS
                        THEN Tail(all) ELSE all
         IN IF Len(shifted) > 0 /\ shifted[Len(shifted)].timestamp - t > TRAIL_LENGTH_SECS
            THEN SubSeq(shifted, 1, Len(shifted) - 1) ELSE shifted

\* "Get trails": the range query trimmed at both ends.
TrimmedTrail(key, t) ==
    LET trailLogData == GetNumberArray(key, t - TRAIL_LENGTH_SECS, t + TRAIL_LENGTH_SECS) IN
    IF trailLogData = None THEN <<>>
    ELSE LET all == trailLogData[1]
             shifted == IF Len(all) > 0 /\ t - all[1].timestamp > TRAIL_LENGTH_SECS
                        THEN Tail(all) ELSE all
         IN IF Len(shifted) > 0 /\ shifted[Len(shifted)].timestamp - t > TRAIL_LENGTH_SECS
            THEN SubSeq(shifted, 1, Len(shifted) - 1) ELSE shifted

\* The translations robot i (from 0) contributes to its trail.
RECURSIVE TrailOfRobot(_, _)
TrailOfRobot(samples, i) ==
    IF samples = <<>> THEN <<>>
    ELSE LET value == Head(samples).value IN
         (IF Len(value) % 3 = 0 /\ i < Len(value) \div 3
          THEN << <<ConvertDistance(value[3 * i + 1], unitDistance),
                    ConvertDistance(value[3 * i + 2], unitDistance)>> >>
          ELSE <<>>) \o TrailOfRobot(Tail(samples), i)

\* One trail per pose of a "Robot" field.
RECURSIVE TrailsOf(_, _)
TrailsOf(fields, t) ==
    IF fields = <<>> THEN <<>>
    ELSE (IF Head(fields).type = "Robot"
          THEN LET currentRobotData == GetCurrentValue(Head(fields).key, t)
                   samples == TrimmedTrail(Head(fields).key, t)
               IN [i \in 1 .. Len(currentRobotData) |-> TrailOfRobot(samples, i - 1)]
          ELSE <<>>) \o TrailsOf(Tail(fields), t)

\* enabledData.timestamps.findLastIndex((x) => x <= timestamp); 0 for -1.
EnabledDataIndex(timestamp) ==
    LET found == {i \in 1 .. Len(enabledData) : enabledData[i].timestamp <= timestamp}
    IN IF found = {} THEN 0 ELSE Max(found)

\* Math.ceil(a / b) for b > 0.
Ceil(a, b) == -((-a) \div b)

RECURSIVE Repeat(_, _)
Repeat(samples, n) == IF n <= 0 THEN <<>> ELSE samples \o Repeat(samples, n - 1)

\* A generator that emits floor(interval / dt) rounds of samples.
GenerateSamples_RoundsDown(series, index) ==
    LET timestamp == series[index].timestamp
        value == series[index].value
        nextTimestamp == IF index < Len(series) THEN series[index + 1].timestamp
                         ELSE timestamp
        sampleCount == (nextTimestamp - timestamp) \div HEATMAP_DT
        round == IF Len(value) % 3 = 0
                 THEN [i \in 1 .. Len(value) \div 3 |->
                         [timestamp |-> timestamp + (i - 1) * HEATMAP_DT,
                          value |-> <<value[3 * i - 2] * ConvertDistance(1, unitDistance),
                                      value[3 * i - 1] * ConvertDistance(1, unitDistance)>>]]
                 ELSE <<>>
    IN Repeat(round, sampleCount)

\* "Generate samples": the outer loop runs sampleCount times; the inner loop,
\* whose counter shadows the outer one, pushes one sample per encoded pose,
\* stamped with the pose's own index.
GenerateSamples(series, index) ==
    LET timestamp == series[index].timestamp
        value == series[index].value
        nextTimestamp == IF index < Len(series) THEN series[index + 1].timestamp
                         ELSE timestamp
        sampleCount == Ceil(nextTimestamp - timestamp, HEATMAP_DT)
        round == IF Len(value) % 3 = 0
                 THEN [i \in 1 .. Len(value) \div 3 |->
                         [timestamp |-> timestamp + (i - 1) * HEATMAP_DT,
                          value |-> <<value[3 * i - 2] * ConvertDistance(1, unitDistance),
                                      value[3 * i - 1] * ConvertDistance(1, unitDistance)>>]]
                 ELSE <<>>
    IN Repeat(round, sampleCount)

\* An enabled check that lets a sample with no enabled value through.
EnabledCheck_PassesUnknown(enabledFilter, timestamp) ==
    \/ ~enabledFilter
    \/ EnabledDataIndex(timestamp) = 0
    \/ enabledData[EnabledDataIndex(timestamp)].value

\* "Check if enabled", at the raw sample's timestamp.
EnabledCheck(enabledFilter, timestamp) ==
    \/ ~enabledFilter
    \/ /\ EnabledDataIndex(timestamp) # 0
       /\ enabledData[EnabledDataIndex(timestamp)].value

\* heatmapLogData.values.forEach from the sample at index on.
RECURSIVE HeatmapOfSeries(_, _, _)
HeatmapOfSeries(series, index, enabledFilter) ==
    IF index > Len(series) THEN <<>>
    ELSE (IF EnabledCheck(enabledFilter, series[index].timestamp)
          THEN GenerateSamples(series, index) ELSE <<>>)
         \o HeatmapOfSeries(series, index + 1, enabledFilter)

\* case "Heatmap" / "Heatmap (Enabled)" over the bound fields.
RECURSIVE HeatmapDataOf(_)
HeatmapDataOf(fields) ==
    IF fields = <<>> THEN <<>>
    ELSE (IF Head(fields).type \in {"Heatmap", "Heatmap (Enabled)"}
          THEN LET heatmapLogData == GetNumberArray(Head(fields).key, -Infinity, Infinity)
               IN IF heatmapLogData = None THEN <<>>
                  ELSE HeatmapOfSeries(heatmapLogData[1], 1,
                                       Head(fields).type = "Heatmap (Enabled)")
          ELSE <<>>) \o HeatmapDataOf(Tail(fields))

\* heatmapData.sort((a, b) => a.timestamp - b.timestamp): a stable sort.
RECURSIVE InsertByTimestamp(_, _)
InsertByTimestamp(sorted, sample) ==
    IF sorted = <<>> THEN <<sample>>
    ELSE IF sorted[Len(sorted)].timestamp <= sample.timestamp
         THEN Append(sorted, sample)
         ELSE Append(InsertByTimestamp(SubSeq(sorted, 1, Len(sorted) - 1), sample),
                     sorted[Len(sorted)])

RECURSIVE SortByTimestamp(_)
SortByTimestamp(samples) ==
    IF samples = <<>> THEN <<>>
    ELSE InsertByTimestamp(SortByTimestamp(SubSeq(samples, 1, Len(samples) - 1)),
                           samples[Len(samples)])

\* A filter that also drops a sample stamped like the last kept one.
RECURSIVE FilterHeatmap_DropsEqual(_, _)
FilterHeatmap_DropsEqual(samples, lastTimestamp) ==
    IF samples = <<>> THEN <<>>
    ELSE IF Head(samples).timestamp - lastTimestamp >= HEATMAP_DT
         THEN <<Head(samples)>>
              \o FilterHeatmap_DropsEqual(Tail(samples), Head(samples).timestamp)
         ELSE FilterHeatmap_DropsEqual(Tail(samples), lastTimestamp)

\* "Filter heatmap data (remove samples with too small dts)"
RECURSIVE FilterHeatmap(_, _)
FilterHeatmap(samples, lastTimestamp) ==
    IF samples = <<>> THEN <<>>
    ELSE IF \/ Head(samples).timestamp = lastTimestamp
            \/ Head(samples).timestamp - lastTimestamp >= HEATMAP_DT
         THEN <<Head(samples)>> \o FilterHeatmap(Tail(samples), Head(samples).timestamp)
         ELSE FilterHeatmap(Tail(samples), lastTimestamp)

\* "Get alliance colors"
AllianceRed(choice) ==
    IF choice = "auto" THEN allianceOptions.autoRed ELSE choice = "red"

\* getCommand(time)
GetCommand(t) ==
    /\ time' = t
    /\ heatmapData' = SortByTimestamp(HeatmapDataOf(listFields))
    /\ heatmapKept' = FilterHeatmap(heatmapData', 0)
    /\ odometryCommand' = Some(
          [poses |->
              [robot |-> PosesOfType(listFields, "Robot", t),
               trail |-> TrailsOf(listFields, t),
               ghost |-> PosesOfType(listFields, "Ghost", t),
               trajectory |-> TrajectoriesOf(listFields, t),
               visionTarget |-> PosesOfType(listFields, "Vision Target", t),
               heatmap |-> [i \in 1 .. Len(heatmapKept') |-> heatmapKept'[i].value],
               arrowFront |-> PosesOfType(listFields, "Arrow (Front)", t),
               arrowCenter |-> PosesOfType(listFields, "Arrow (Center)", t),
               arrowBack |-> PosesOfType(listFields, "Arrow (Back)", t)],
           options |-> [unitDistance |-> unitDistance,
                        unitRotation |-> unitRotation,
                        allianceBumpers |-> allianceOptions.bumpers,
                        allianceOrigin |-> allianceOptions.origin],
           allianceRedBumpers |-> AllianceRed(allianceOptions.bumpers),
           allianceRedOrigin |-> AllianceRed(allianceOptions.origin)])
    /\ UNCHANGED <<log, enabledData, listFields, unitDistance, unitRotation,
                   allianceOptions, envVars, command, thisVars>>

\* ------------------------------------------- OdometryController scenarios
PointRoles ==
    {"Robot", "Ghost", "Trajectory", "Vision Target",
     "Arrow (Front)", "Arrow (Center)", "Arrow (Back)"}
LoggedKey == "/odometry/pose"
MissingKey == "/odometry/missing"
Field(k, ty) == [key |-> k, type |-> ty]
UnitChoices == {<<"meters", "radians">>, <<"inches", "degrees">>}

\* Everything but the log, the bound fields and the units at its initial value.
InitTelemetry ==
    /\ InitVisualizer
    /\ frcData = CatalogFull
    /\ display = Display1
    /\ \E u \in UnitChoices : unitDistance = u[1] /\ unitRotation = u[2]
    /\ time = 0
    /\ heatmapData = <<>>
    /\ heatmapKept = <<>>
    /\ odometryCommand = None

\* Point decoding: one field of every point role bound to the logged key, one
\* bound to a key the log does not have; getCommand at two times.
DecodeFieldLists ==
    { <<Field(LoggedKey, ty)>> : ty \in PointRoles } \cup {<<Field(MissingKey, "Ghost")>>}
DecodeTimes == {0, 2}

InitDecode ==
    /\ InitTelemetry
    /\ log \in { [k \in {LoggedKey} |-> series] : series \in AllSeries }
    /\ listFields \in DecodeFieldLists
    /\ enabledData = <<>>
    /\ allianceOptions = [bumpers |-> "auto", origin |-> "blue", autoRed |-> FALSE]

NextDecode == \E t \in DecodeTimes : GetCommand(t)

SpecDecode == InitDecode /\ [][NextDecode]_vars

\* The pose list the command holds for the first bound field.
DecodedPoses ==
    LET poses == odometryCommand[1].poses
        type == listFields[1].type
    IN CASE type = "Robot" -> poses.robot
         [] type = "Ghost" -> poses.ghost
         [] type = "Trajectory" -> poses.trajectory[1]
         [] type = "Vision Target" -> poses.visionTarget
         [] type = "Arrow (Front)" -> poses.arrowFront
         [] type = "Arrow (Center)" -> poses.arrowCenter
         [] type = "Arrow (Back)" -> poses.arrowBack

\* The value of the last sample of a series at-or-before t (None if none).
ValueAtOrBefore(series, t) ==
    LET found == {i \in 1 .. Len(series) : series[i].timestamp <= t}
    IN IF found = {} THEN None ELSE Some(series[Max(found)].value)

\* C16: the poses decoded for a point role from the sample at-or-before t:
\* one pose with rotation 0 for a 2-length value, length/3 poses in order for
\* a length that is a multiple of 3, none for any other length, for a missing
\* key and when every sample is later than t.
C16_PointDecodingByShape ==
    odometryCommand # None =>
        LET key == listFields[1].key
            current == IF key \in DOMAIN log THEN ValueAtOrBefore(log[key], time)
                       ELSE None
        IN IF current = None THEN DecodedPoses = <<>>
           ELSE LET value == current[1] IN
                IF Len(value) = 2
                THEN /\ Len(DecodedPoses) = 1
                     /\ DecodedPoses[1].rotation = 0
                     /\ DecodedPoses[1].translation =
                            <<ConvertDistance(value[1], unitDistance),
                              ConvertDistance(value[2], unitDistance)>>
                ELSE IF Len(value) % 3 = 0
                THEN /\ Len(DecodedPoses) = Len(value) \div 3
                     /\ \A i \in 1 .. Len(DecodedPoses) :
                           /\ DecodedPoses[i].translation =
                                 <<ConvertDistance(value[3 * i - 2], unitDistance),
                                   ConvertDistance(value[3 * i - 1], unitDistance)>>
                           /\ DecodedPoses[i].rotation =
                                 ConvertRotation(value[3 * i], unitRotation)
                ELSE DecodedPoses = <<>>

\* getCommand was asked at a time whose current sample has 14 numbers, after
\* an earlier sample that encodes two poses: the ghost list is empty.
C16_Witness ==
    /\ odometryCommand # None
    /\ listFields = <<Field(LoggedKey, "Ghost")>>
    /\ time = 2
    /\ log[LoggedKey] = <<Sample(0, Value6), Sample(2, Value14)>>
    /\ odometryCommand[1].poses.ghost = <<>>

\* Heatmaps: the logged key bound as "Heatmap", as "Heatmap (Enabled)", as
\* both, and a key the log does not have; enabled series that are empty,
\* always true, turned false inside the first interval, and turned true late.
HeatmapFieldLists ==
    { <<Field(LoggedKey, "Heatmap")>>,
      <<Field(LoggedKey, "Heatmap (Enabled)")>>,
      <<Field(LoggedKey, "Heatmap"), Field(LoggedKey, "Heatmap (Enabled)")>>,
      <<Field(MissingKey, "Heatmap")>> }
EnabledSeries ==
    { <<>>,
      <<Sample(0, TRUE)>>,
      <<Sample(0, TRUE), Sample(1, FALSE)>>,
      <<Sample(-1, FALSE), Sample(2, TRUE)>> }

InitHeatmap ==
    /\ InitTelemetry
    /\ log \in { [k \in {LoggedKey} |-> series] : series \in AllHeatmapSeries }
    /\ listFields \in HeatmapFieldLists
    /\ enabledData \in EnabledSeries
    /\ allianceOptions = [bumpers |-> "auto", origin |-> "blue", autoRed |-> FALSE]

NextHeatmap == GetCommand(0)

SpecHeatmap == InitHeatmap /\ [][NextHeatmap]_vars

\* The translations a raw value encodes for the heatmap, in meters.
PoseTranslations(value) ==
    IF Len(value) % 3 = 0
    THEN [j \in 1 .. Len(value) \div 3 |->
             <<ConvertDistance(value[3 * j - 2], unitDistance),
               ConvertDistance(value[3 * j - 1], unitDistance)>>]
    ELSE <<>>

\* ceil(d / dt): the least n with n * dt >= d.
IntervalSamples(d) == CHOOSE n \in 0 .. d : n * HEATMAP_DT >= d /\ (n - 1) * HEATMAP_DT < d

RECURSIVE SumOver(_, _)
SumOver(S, f) ==
    IF S = {} THEN 0
    ELSE LET x == CHOOSE y \in S : TRUE IN f[x] + SumOver(S \ {x}, f)

\* The raw series behind the heatmap and, per raw sample and encoded pose,
\* the number of synthetic samples expected for the interval to the next one.
HeatmapSeries == log[LoggedKey]
EncodedPoses ==
    UNION { { <<i, j>> : j \in 1 .. Len(PoseTranslations(HeatmapSeries[i].value)) } :
            i \in 1 .. Len(HeatmapSeries) }
ExpectedCount(p) ==
    IF p[1] = Len(HeatmapSeries) THEN 0
    ELSE IntervalSamples(HeatmapSeries[p[1] + 1].timestamp - HeatmapSeries[p[1]].timestamp)

\* C17: with the key bound as "Heatmap", each pose encoded by a raw sample
\* yields exactly ceil(D / dt) synthetic samples for the interval D to the next
\* raw sample, each carrying that raw sample's own translation: for every
\* translation the number of synthetic samples carrying it is the sum of
\* ceil(D / dt) over the raw poses that have it, and nothing else is emitted.
C17_StepHoldResamplingCount ==
    (odometryCommand # None /\ listFields = <<Field(LoggedKey, "Heatmap")>>) =>
        /\ Len(heatmapData) =
              SumOver(EncodedPoses, [p \in EncodedPoses |-> ExpectedCount(p)])
        /\ \A k \in 1 .. Len(heatmapData) :
              LET holders == { p \in EncodedPoses :
                                 PoseTranslations(HeatmapSeries[p[1]].value)[p[2]]
                                     = heatmapData[k].value }
              IN Cardinality({ m \in 1 .. Len(heatmapData) :
                                 heatmapData[m].value = heatmapData[k].value })
                     = SumOver(holders, [p \in holders |-> ExpectedCount(p)])

\* Two raw samples 1.0 s apart, the first encoding one pose: ten synthetic
\* samples, all with the first sample's translation.
C17_Witness ==
    /\ odometryCommand # None
    /\ listFields = <<Field(LoggedKey, "Heatmap")>>
    /\ unitDistance = "meters"
    /\ log[LoggedKey] = <<Sample(0, Value3), Sample(20, Value6)>>
    /\ Len(heatmapData) = 10
    /\ \A k \in 1 .. 10 : heatmapData[k].value = <<100000, 200000>>

\* The enabled series looked up by last-value-at-or-before; FALSE if there is
\* no enabled value at-or-before the timestamp.
EnabledAt(timestamp) ==
    LET found == {i \in 1 .. Len(enabledData) : enabledData[i].timestamp <= timestamp}
    IN found # {} /\ enabledData[Max(found)].value

\* C18 as claimed: with the key bound as "Heatmap (Enabled)", every emitted
\* synthetic sample has the enabled series true at its own timestamp.
C18_EnabledAtSyntheticTimestamp ==
    (odometryCommand # None /\ listFields = <<Field(LoggedKey, "Heatmap (Enabled)")>>) =>
        \A k \in 1 .. Len(heatmapData) : EnabledAt(heatmapData[k].timestamp)

\* The encoded poses of the raw samples at whose own timestamp the enabled
\* series is true.
EnabledPoses == { p \in EncodedPoses : EnabledAt(HeatmapSeries[p[1]].timestamp) }

\* C18 amended: the enabled filter is per raw sample: with "Heatmap
\* (Enabled)" a raw sample is resampled exactly when the enabled series,
\* looked up at-or-before the raw sample's own timestamp, is true; then all
\* its synthetic samples are emitted, whatever the enabled series says later
\* in the interval, and otherwise (false, or no enabled value) none.
C18_EnabledAtRawTimestamp ==
    (odometryCommand # None /\ listFields = <<Field(LoggedKey, "Heatmap (Enabled)")>>) =>
        /\ Len(heatmapData) =
              SumOver(EnabledPoses, [p \in EnabledPoses |-> ExpectedCount(p)])
        /\ \A k \in 1 .. Len(heatmapData) :
              LET holders == { p \in EnabledPoses :
                                 PoseTranslations(HeatmapSeries[p[1]].value)[p[2]]
                                     = heatmapData[k].value }
              IN Cardinality({ m \in 1 .. Len(heatmapData) :
                                 heatmapData[m].value = heatmapData[k].value })
                     = SumOver(holders, [p \in holders |-> ExpectedCount(p)])

\* The raw sample at 0 was recorded while enabled, the signal turned false
\* at 1, the next raw sample is at 5: all three synthetic samples are there.
C18_Witness ==
    /\ odometryCommand # None
    /\ listFields = <<Field(LoggedKey, "Heatmap (Enabled)")>>
    /\ enabledData = <<Sample(0, TRUE), Sample(1, FALSE)>>
    /\ log[LoggedKey] = <<Sample(0, Value6), Sample(5, Value3)>>
    /\ Len(heatmapData) = 6

\* The timestamps among the generated samples and among the kept ones.
DataTimes == { heatmapData[k].timestamp : k \in 1 .. Len(heatmapData) }
KeptTimes == { heatmapKept[k].timestamp : k \in 1 .. Len(heatmapKept) }
HasKeptTime(sample) == sample.timestamp \in KeptTimes

\* The timestamp the filter compares x with: that of the last kept sample
\* stamped before x, and 0 while nothing is kept.
LastKeptBefore(x) ==
    LET earlier == {y \in KeptTimes : y < x}
    IN IF earlier = {} THEN 0 ELSE Max(earlier)

\* C19 as claimed: any two consecutive samples of the filter's output are at
\* least dt apart.
C19_KeptSamplesDtApart ==
    odometryCommand # None =>
        \A k \in 1 .. Len(heatmapKept) - 1 :
            heatmapKept[k + 1].timestamp - heatmapKept[k].timestamp >= HEATMAP_DT

\* C19 amended: the merged samples are sorted by timestamp; the filter drops
\* exactly the samples stamped less than dt after, and not at, the timestamp
\* of the last kept sample (0 while nothing is kept), and keeps every sample
\* stamped like a kept one; two consecutive kept samples have equal
\* timestamps or timestamps at least dt apart, and the command carries the
\* kept samples' translations in that order.
C19_MinimumSpacingFilter ==
    odometryCommand # None =>
        /\ \A k \in 1 .. Len(heatmapData) - 1 :
              heatmapData[k].timestamp <= heatmapData[k + 1].timestamp
        /\ \A x \in DataTimes :
              x \in KeptTimes <=>
                  \/ x = LastKeptBefore(x)
                  \/ x - LastKeptBefore(x) >= HEATMAP_DT
        /\ heatmapKept = SelectSeq(heatmapData, HasKeptTime)
        /\ \A k \in 1 .. Len(heatmapKept) - 1 :
              \/ heatmapKept[k + 1].timestamp = heatmapKept[k].timestamp
              \/ heatmapKept[k + 1].timestamp - heatmapKept[k].timestamp >= HEATMAP_DT
        /\ odometryCommand[1].poses.heatmap =
              [k \in 1 .. Len(heatmapKept) |-> heatmapKept[k].value]

\* Raw samples at 0, 1 and 3: the samples stamped 0 by both bound fields are
\* kept, the one stamped 1 is dropped and the one stamped 3 is kept.
C19_Witness ==
    /\ odometryCommand # None
    /\ Len(listFields) = 2
    /\ enabledData = <<Sample(0, TRUE)>>
    /\ log[LoggedKey] = <<Sample(0, Value3), Sample(1, Value6), Sample(3, Value3)>>
    /\ Len(heatmapKept) >= 4
    /\ heatmapKept[1].timestamp = 0 /\ heatmapKept[2].timestamp = 0
    /\ 1 \in DataTimes /\ 1 \notin KeptTimes
    /\ 3 \in KeptTimes

\* C20: whenever the merged heatmap samples are not empty, the earliest of
\* them is the first sample of the filter's output.
C20_FirstSampleKept ==
    (odometryCommand # None /\ heatmapData # <<>>) =>
        /\ heatmapKept # <<>>
        /\ heatmapKept[1] = heatmapData[1]

\* ------------------------------------------------------------ robot trails
\* Trails: timestamps around the window of W = 5 s (100 units) about the
\* query times 0 and 1: well before, just before, at and inside the window's
\* start, inside, at, just after and well after its end. Every sample
\* encodes one pose whose x is its own timestamp, so a trail names the
\* samples it was built from.
MaxTrailSamples == 4
TrailTimestamps == {-120, -101, -100, -60, 40, 100, 101, 140}
TrailValue(t) == <<t, 0, 0>>

RECURSIVE TrailSeriesFrom(_, _)
TrailSeriesFrom(n, after) ==
    IF n = 0 THEN {<<>>}
    ELSE {<<>>} \cup
         UNION { { <<Sample(t, TrailValue(t))>> \o rest :
                     rest \in TrailSeriesFrom(n - 1, t) } :
                 t \in {x \in TrailTimestamps : x > after} }

TrailTimes == {0, 1}

InitTrail ==
    /\ InitTelemetry
    /\ log \in { [k \in {LoggedKey} |-> series] :
                   series \in TrailSeriesFrom(MaxTrailSamples, -Infinity) }
    /\ listFields = <<Field(LoggedKey, "Robot")>>
    /\ enabledData = <<>>
    /\ allianceOptions = [bumpers |-> "auto", origin |-> "blue", autoRed |-> FALSE]

NextTrail == \E t \in TrailTimes : GetCommand(t)

SpecTrail == InitTrail /\ [][NextTrail]_vars

\* What the range query over [time - W, time + W] returned, and the samples
\* of the log inside that window.
TrailReturned == GetNumberArray(LoggedKey, time - TRAIL_LENGTH_SECS, time + TRAIL_LENGTH_SECS)[1]
InTrailWindow(sample) ==
    /\ sample.timestamp >= time - TRAIL_LENGTH_SECS
    /\ sample.timestamp <= time + TRAIL_LENGTH_SECS
TrailTranslation(sample) ==
    <<ConvertDistance(sample.value[1], unitDistance),
      ConvertDistance(sample.value[2], unitDistance)>>

\* C21: when the robot has a current pose, its trail is built, in order, from
\* the returned samples without the first one if that is more than W before
\* t and without the last one if that is more than W after t: at most one
\* sample goes at each end and every returned sample inside the window stays.
C21_TrailBoundaryTrim ==
    (odometryCommand # None /\ Len(odometryCommand[1].poses.robot) = 1) =>
        LET returned == TrailReturned
            dropFirst == IF returned # <<>> /\ time - returned[1].timestamp > TRAIL_LENGTH_SECS
                         THEN 1 ELSE 0
            dropLast == IF /\ Len(returned) > dropFirst
                           /\ returned[Len(returned)].timestamp - time > TRAIL_LENGTH_SECS
                        THEN 1 ELSE 0
            kept == SubSeq(returned, 1 + dropFirst, Len(returned) - dropLast)
        IN /\ odometryCommand[1].poses.trail =
                 << [k \in 1 .. Len(kept) |-> TrailTranslation(kept[k])] >>
           /\ kept = SelectSeq(log[LoggedKey], InTrailWindow)
           /\ Len(returned) - Len(kept) <= 2

\* The returned timestamps were t-6 s, t-3 s, t+2 s and t+7 s: the trail is
\* built from the samples at t-3 s and t+2 s.
C21_Witness ==
    /\ odometryCommand # None
    /\ time = 0
    /\ unitDistance = "meters"
    /\ log[LoggedKey] = <<Sample(-120, TrailValue(-120)), Sample(-60, TrailValue(-60)),
                          Sample(40, TrailValue(40)), Sample(140, TrailValue(140))>>
    /\ odometryCommand[1].poses.trail = << << <<-600000, 0>>, <<400000, 0>> >> >>

\* ------------------------------------------------ rotation composition
\* Rotation sequences: the field F1 is declared with every sequence of up to
\* MaxRotations quarter turns; its model is requested and loaded.
MaxRotations == 2

RECURSIVE RotSeqs(_)
RotSeqs(n) ==
    IF n = 0 THEN {<<>>}
    ELSE {<<>>} \cup { <<r>> \o rest : r \in Rotations, rest \in RotSeqs(n - 1) }

RotationCatalogs ==
    { [CatalogFull EXCEPT !.field3ds["F1"].rotations = seq] : seq \in RotSeqs(MaxRotations) }

RotationCommands ==
    { c \in Commands : /\ c.options.alliance = "blue"
                       /\ c.options.field = "F1"
                       /\ c.options.robot = "R1" }

InitRotation ==
    /\ frcData \in RotationCatalogs
    /\ InitScene
    /\ InitOdometry
    /\ display = Display1

NextRotation ==
    \/ \E c \in RotationCommands : Render(c)
    \/ Tick
    \/ \E l \in pending : LoadCompletes(l)

SpecRotation == InitRotation /\ [][NextRotation]_vars

\* Vector3.applyQuaternion: q * v * conjugate(q), divided by the squared norm
\* the scaled quaternion carries.
ApplyQuaternion(q, v) ==
    LET conjugate == <<q[1], -q[2], -q[3], -q[4]>>
        p == MultiplyQuaternions(MultiplyQuaternions(q, <<0, v[1], v[2], v[3]>>), conjugate)
        n == q[1] * q[1] + q[2] * q[2] + q[3] * q[3] + q[4] * q[4]
    IN <<p[2] \div n, p[3] \div n, p[4] \div n>>

\* One quarter turn, counterclockwise seen from the tip of the world axis.
QuarterTurn(axis, v) ==
    CASE axis = "x" -> <<v[1], -v[3], v[2]>>
      [] axis = "y" -> <<v[3], v[2], -v[1]>>
      [] axis = "z" -> <<-v[2], v[1], v[3]>>

RECURSIVE QuarterTurns(_, _, _)
QuarterTurns(axis, k, v) ==
    IF k = 0 THEN v ELSE QuarterTurns(axis, k - 1, QuarterTurn(axis, v))

\* A vector rotated about a world axis by one rotation of a sequence.
Rotate(rotation, v) == QuarterTurns(rotation.axis, ((rotation.degrees \div 90) + 4) % 4, v)

\* The rotations applied in world space in list order, the first one first.
RECURSIVE RotateInListOrder(_, _)
RotateInListOrder(rotations, v) ==
    IF rotations = <<>> THEN v
    ELSE RotateInListOrder(Tail(rotations), Rotate(Head(rotations), v))

\* The rotations applied in world space with the first one last.
RECURSIVE RotateFirstLast(_, _)
RotateFirstLast(rotations, v) ==
    IF rotations = <<>> THEN v
    ELSE Rotate(Head(rotations), RotateFirstLast(Tail(rotations), v))

TestVectors == {<<1, 0, 0>>, <<0, 1, 0>>, <<0, 0, 1>>, <<1, 2, 3>>}

\* C22 (as claimed): the orientation a loaded field gets from its rotation
\* sequence applies the first listed rotation last in world space: for
\* [r1, r2] a vector is rotated by r2 first and then by r1.
C22_FirstRotationAppliedLast ==
    [][\A l \in pending :
         (l.kind = "field" /\ LoadCompletes(l)) =>
             \A v \in TestVectors :
                 ApplyQuaternion(fieldRotation', v) = RotateFirstLast(l.config.rotations, v)]_vars

\* C22 (amended): the orientation a loaded field gets from its rotation
\* sequence applies the rotations in world space in list order: for [r1, r2]
\* a vector is rotated by r1 first and then by r2.
C22_FirstRotationAppliedFirst ==
    [][\A l \in pending :
         (l.kind = "field" /\ LoadCompletes(l)) =>
             \A v \in TestVectors :
                 ApplyQuaternion(fieldRotation', v) = RotateInListOrder(l.config.rotations, v)]_vars

\* The field declared with [x 90, y 90] is loaded: its x axis points to -z
\* (x 90 leaves it, y 90 then turns it), not to +y.
C22_Witness ==
    /\ field = 1
    /\ loadCount = 2
    /\ lastFieldTitle = "F1"
    /\ frcData.field3ds["F1"].rotations =
           << [axis |-> "x", degrees |-> 90], [axis |-> "y", degrees |-> 90] >>
    /\ fieldRotation = <<1, 1, 1, -1>>
    /\ ApplyQuaternion(fieldRotation, <<1, 0, 0>>) = <<0, 0, -1>>

\* ------------------------------------------------------ alliance origin
\* Alliance flip: both alliances and both fields, one robot with a pose.
AllianceCommands ==
    { c \in Commands : c.options.robot = "R1" /\ c.poses.robot # None }

InitAlliance == Init /\ display = Display1 /\ frcData = CatalogFull

NextAlliance ==
    \/ \E c \in AllianceCommands : Render(c)
    \/ Tick
    \/ \E l \in pending : LoadCompletes(l)

SpecAlliance == InitAlliance /\ [][NextAlliance]_vars

\* Half the field's width and height in units of 0.1 mm (1 inch = 254 units).
HalfExtent(fieldConfig) ==
    <<(fieldConfig.widthInches * 254) \div 2, (fieldConfig.heightInches * 254) \div 2>>

BlueFrame(fieldConfig) ==
    [rotation |-> 0,
     position |-> <<-HalfExtent(fieldConfig)[1], -HalfExtent(fieldConfig)[2], 0>>]

\* C23: after a redraw the field frame is unrotated and translated by
\* (-w/2, -h/2, 0) for the alliance "blue", and turned by a half-turn and
\* translated by (+w/2, +h/2, 0) for "red": the red translation is the
\* negation of the blue one of the same field.
C23_AllianceOriginFlip ==
    [][ResolvedRedraw =>
          LET fieldConfig == frcData.field3ds[command[1].options.field]
              blue == BlueFrame(fieldConfig)
          IN /\ command[1].options.alliance = "blue" => fieldFrame' = blue
             /\ command[1].options.alliance = "red" =>
                   /\ fieldFrame'.rotation = 180
                   /\ fieldFrame'.position = <<HalfExtent(fieldConfig)[1],
                                               HalfExtent(fieldConfig)[2], 0>>
                   /\ \A k \in 1 .. 3 : fieldFrame'.position[k] = -blue.position[k]]_vars

\* A redraw of the 651 x 315 inch field for the red alliance has been drawn.
C23_Witness ==
    /\ command # None
    /\ command[1].options.alliance = "red"
    /\ command[1].options.field = "F1"
    /\ canvasFrame # None
    /\ ~shouldRender
    /\ fieldFrame = [rotation |-> 180, position |-> <<82677, 40005, 0>>]

\* The raw intervals a synthetic sample can come from: the raw sample encodes
\* the sample's translation and its interval [t_i, t_i+1) holds the stamp on
\* the grid t_i + k * dt.
OriginIntervals(sample) ==
    { i \in 1 .. Len(HeatmapSeries) - 1 :
        /\ \E j \in 1 .. Len(PoseTranslations(HeatmapSeries[i].value)) :
              PoseTranslations(HeatmapSeries[i].value)[j] = sample.value
        /\ sample.timestamp >= HeatmapSeries[i].timestamp
        /\ sample.timestamp < HeatmapSeries[i + 1].timestamp
        /\ (sample.timestamp - HeatmapSeries[i].timestamp) % HEATMAP_DT = 0 }

\* C24: with the key bound as "Heatmap", every synthetic sample is stamped
\* t_i + k * dt with k in 0 .. ceil(D / dt) - 1 for the raw interval
\* [t_i, t_i+1) it was generated for: at or after t_i and before t_i+1.
C24_SyntheticTimestampsInInterval ==
    (odometryCommand # None /\ listFields = <<Field(LoggedKey, "Heatmap")>>) =>
        \A k \in 1 .. Len(heatmapData) : OriginIntervals(heatmapData[k]) # {}

====
